---- MODULE Spec2Model ----
(***************************************************************************)
(* SpotAlert backend (src/server.js): the /trigger-alert handler, its      *)
(* helpers (uploadToS3, detectFaces, sendAlertEmail, logUsage,             *)
(* checkAndTopUp), the billing endpoints (usage-summary, usage-reset,      *)
(* usage-export), the replay and incident-pdf endpoints, and the two       *)
(* sqlite tables alerts and usage_log.                                     *)
(*                                                                         *)
(* Money is counted in thousandths of a US dollar, so PRICING.email =      *)
(* 0.002 is 2 and PLAN_LIMITS.Standard = 5 is 5000.  Time is a counter of  *)
(* clock instants; an ISO-8601 timestamp is the instant itself, so the     *)
(* string comparison of two timestamps is the comparison of the instants.  *)
(* The node-sqlite3 database runs in its default (parallel) mode: the      *)
(* statements queued by db.run / db.get are a pool that is executed one    *)
(* statement at a time in any order.  Statements are assumed to succeed.   *)
(***************************************************************************)
EXTENDS Integers, Sequences, FiniteSets, Bags, TLC

\* ------------------------------------------------------------- bounds
\* Last clock instant of a run.
MaxTime == 4
\* Calendar: instants per day and days per month.
TicksPerDay == 2
DaysPerMonth == 2
\* Verification tokens: clock instants per second, the lifetime of a token in
\* seconds (it stands for the 86400 seconds of "24h"), and how many tokens a
\* run creates.
TicksPerSecond == 2
ExpiresIn == 2
MaxTokens == 2
\* Last clock instant of a run that verifies tokens: one second past the
\* lifetime of a token created in the first second.
MaxClock == (ExpiresIn + 1) * TicksPerSecond

\* The /trigger-alert requests of a run, numbered in the order they arrive.
Reqs == {1, 2}
\* The requests of a run to the billing, replay and incident-pdf endpoints,
\* numbered in the order they arrive.
AdminReqs == {3, 4}

\* ------------------------------------------------------------- configuration
CONFIG ==
  [ S3_BUCKET |-> "spotalert",
    REKOG_COLLECTION_ID |-> "SpotAlertCollection",
    SES_FROM_EMAIL |-> "alerts@spotalert.live",
    SES_TO_EMAIL |-> "admin@spotalert.live",
    ALERT_SUBJECT |-> "[SpotAlert] Unknown Face Detected" ]

TOPUP_SUBJECT == "[SpotAlert] Top-Up Needed"

PRICING == [ app |-> 1, email |-> 2, whatsapp |-> 6, sms |-> 5 ]

PLAN_LIMITS == [ Free |-> 0, Standard |-> 5000, Premium |-> 10000, Elite |-> 25000 ]

\* ------------------------------------------------------------- inputs
\* req.body.plan and req.body.email; "" is a field that is absent or empty
\* (both are falsy for ||).  "Gold" is a plan name PLAN_LIMITS does not have.
PlanFields == {"", "Free", "Standard", "Gold"}
EmailFields == {"", "a@x.com"}
\* req.file: absent, or an upload with its original name.
NoFile == [present |-> FALSE, originalname |-> ""]
Uploads == {NoFile, [present |-> TRUE, originalname |-> "cam.jpg"]}
\* Uploads of two original names; the second begins like a timestamp.
NamedUploads ==
  {[present |-> TRUE, originalname |-> "cam.jpg"],
   [present |-> TRUE, originalname |-> "4_cam.jpg"]}
\* What SearchFacesByImage answers: FaceMatches missing, empty, or matches.
NoMatches == [defined |-> FALSE, list |-> <<>>]
SearchAnswers ==
  {NoMatches, [defined |-> TRUE, list |-> <<>>], [defined |-> TRUE, list |-> <<"face-1">>]}

\* req.query.email of usage-summary is drawn from EmailFields.
\* req.params.id of incident-pdf.
IncidentIds == {1}
\* Replay: ... ORDER BY id DESC LIMIT 10
REPLAY_LIMIT == 10

\* ------------------------------------------------------------- calendar
MonthOf(t) == t \div (TicksPerDay * DaysPerMonth)
TimeOfDay(t) == t % TicksPerDay
\* since = new Date(); since.setDate(1): the day of the month becomes 1, the
\* month and the time of day stay.
setDate1(t) == MonthOf(t) * (TicksPerDay * DaysPerMonth) + TimeOfDay(t)
\* The first instant of the calendar month of t.
MonthStart(t) == MonthOf(t) * (TicksPerDay * DaysPerMonth)

\* ------------------------------------------------------------- state
VARIABLES
  now,         \* the last reading of the clock
  pc,          \* pc[r]: where request r's handler is
  req,         \* req[r]: the handler's locals (file, plan, userEmail, key, faces)
  resp,        \* resp[r]: the response sent, status 0 while none
  s3,          \* keys of the objects stored in the bucket
  collections, \* Rekognition collection ids
  alerts,      \* table alerts: sequence of rows, id = position
  usage_log,   \* table usage_log: bag of rows (the id column is not kept)
  dbPending,   \* statements queued on the database, not yet executed
  dbDone,      \* history: the statements executed
  qres,        \* history: qres[r] is what r's ceiling query found
  sesLog,      \* history: the SES sends attempted
  ext,         \* history: ext[r] is how r's S3 put and Rekognition calls ended
  adm,         \* adm[a]: request a to a billing or replay endpoint and its response
  auth         \* the verification tokens created and the last GET /verify

vars ==
  <<now, pc, req, resp, s3, collections, alerts, usage_log, dbPending, dbDone, qres,
    sesLog, ext, adm, auth>>

NoKey == [ts |-> 0, name |-> ""]

\* Mutant: the key is the original name alone.
KeyString_NameOnly(key) == "uploads/" \o key.name

\* const key = `uploads/${Date.now()}_${req.file.originalname}`: the string
\* of a key, whose parts the model keeps as the record [ts, name].
KeyString(key) == "uploads/" \o ToString(key.ts) \o "_" \o key.name
NoLocals == [file |-> NoFile, plan |-> "", userEmail |-> "", key |-> NoKey, faces |-> <<>>]
NoResp == [status |-> 0, ok |-> FALSE, faces |-> <<>>, key |-> NoKey, error |-> ""]
NoQuery ==
  [ran |-> FALSE, isNull |-> TRUE, total |-> 0, notice |-> FALSE, monthTotal |-> 0, own |-> 0,
   othersTotal |-> 0]

\* tmp is the upload multer stored under req.file.path ("none", "stored" or
\* "removed"), reads names the helpers that have read it, and unlink is how
\* the removal of the v3.4 handler ended ("none": not attempted).
NoCalls ==
  [put |-> "none", rekog |-> "none", matched |-> FALSE, tmp |-> "none", reads |-> {},
   unlink |-> "none"]

\* Number.prototype.toFixed(3) of an amount: the amount is a number of
\* thousandths, the string is its units, a point and three digits.
toFixed3(n) == [units |-> n \div 1000, thousandths |-> n % 1000]

\* A request to a billing or replay endpoint: its parameters, the requests
\* that had been answered when it arrived (history), and its response
\* (status 0 while none).  monthTotal, monthDetails and otherRows are
\* history: what the recipient's rows of the calendar month cost, in all and
\* per channel, and how many rows of other recipients the table held, when
\* the summary query was executed.
NoAdmin ==
  [kind |-> "", state |-> "idle", email |-> "", id |-> 0,
   responded |-> {},
   status |-> 0, ok |-> FALSE, error |-> "",
   total_cost_usd |-> toFixed3(0), details |-> {}, ledger |-> EmptyBag, rows |-> <<>>,
   monthTotal |-> 0, monthDetails |-> {}, otherRows |-> 0]

\* No token created, no /resend and no /verify answered yet.
NoAuth ==
  [issued |-> {}, resend |-> 0,
   last |-> [token |-> [form |-> "none", email |-> "", iat |-> 0, exp |-> 0, key |-> ""],
             at |-> 0, page |-> "none", again |-> FALSE]]

\* ------------------------------------------------------------- tables
UsageRow(user, plan, channel, cost, t) ==
  [user_email |-> user, plan |-> plan, channel |-> channel, cost_usd |-> cost, timestamp |-> t]

\* The ledger left by k earlier calls of one recipient at instant 0: each call
\* wrote one email row and one app row.
History(k, user, plan) ==
  IF k = 0 THEN EmptyBag
  ELSE [row \in {UsageRow(user, plan, "email", PRICING.email, 0),
                 UsageRow(user, plan, "app", PRICING.app, 0)} |-> k]

\* Earlier calls of a Standard recipient: none, or as many as stay just under
\* the Standard ceiling.
PriorCallChoices == {0, PLAN_LIMITS.Standard \div (PRICING.email + PRICING.app)}

RECURSIVE SumCost(_, _)
SumCost(bag, rows) ==
  IF rows = {} THEN 0
  ELSE LET row == CHOOSE x \in rows : TRUE
       IN bag[row] * row.cost_usd + SumCost(bag, rows \ {row})

\* Mutant: the ceiling query without its WHERE user_email = ?.
SelectSum_AllUsers(log, user, sinceISO) ==
  LET rows == {row \in BagToSet(log) : row.timestamp >= sinceISO}
  IN [isNull |-> rows = {}, total |-> SumCost(log, rows)]

\* SELECT SUM(cost_usd) as total FROM usage_log WHERE user_email = ? AND timestamp >= ?
\* SUM over no row is NULL.
SelectSum(log, user, sinceISO) ==
  LET rows == {row \in BagToSet(log) : row.user_email = user /\ row.timestamp >= sinceISO}
  IN [isNull |-> rows = {}, total |-> SumCost(log, rows)]

\* ------------------------------------------------------------- statements
Stmt(r, op, type, image, user, plan, channel, cost, t) ==
  [req |-> r, op |-> op, type |-> type, image |-> image, user |-> user, plan |-> plan,
   channel |-> channel, cost |-> cost, timestamp |-> t]

\* db.run("INSERT INTO alerts (type, timestamp, image) VALUES (?, ?, ?)", ...)
InsertAlert(r, type, t, key) == Stmt(r, "INSERT alerts", type, key, "", "", "", 0, t)

\* Mutant: the entry is written with the default plan, not the call's.
logUsage_DefaultPlan(r, user, plan, channel, cost, t) ==
  Stmt(r, "INSERT usage_log", "", NoKey, user, "Free", channel, cost, t)

\* logUsage(user, plan, channel, cost)
logUsage(r, user, plan, channel, cost, t) ==
  Stmt(r, "INSERT usage_log", "", NoKey, user, plan, channel, cost, t)

\* checkAndTopUp(user, plan): the query it queues, with sinceISO
checkAndTopUp(r, user, plan, t) ==
  Stmt(r, "SELECT SUM", "", NoKey, user, plan, "", 0, setDate1(t))

\* ------------------------------------------------------------- decisions
\* Mutant: the two classifications swapped.
AlertType_Swapped(faces) == IF Len(faces) > 0 THEN "unknown_face" ELSE "known_face"

\* const alertType = faces.length > 0 ? "known_face" : "unknown_face"
AlertType(faces) == IF Len(faces) > 0 THEN "known_face" ELSE "unknown_face"

\* Mutant: the alert email is sent whatever the classification.
SendsAlert_Always(faces) == TRUE

\* if (faces.length === 0) await sendAlertEmail(...)
SendsAlert(faces) == Len(faces) = 0

\* row && row.total && row.total > PLAN_LIMITS[plan]; an unknown plan has no
\* limit (undefined) and no number is greater than undefined.
OverLimit(row, plan) ==
  /\ ~row.isNull
  /\ row.total # 0
  /\ plan \in DOMAIN PLAN_LIMITS
  /\ row.total > PLAN_LIMITS[plan]

\* res.FaceMatches || []
FaceMatches(answer) == IF answer.defined THEN answer.list ELSE <<>>

\* ------------------------------------------------------------- initial state
Init ==
  /\ now = 0
  /\ pc = [r \in Reqs |-> "idle"]
  /\ req = [r \in Reqs |-> NoLocals]
  /\ resp = [r \in Reqs |-> NoResp]
  /\ s3 = {}
  /\ collections \in {{}, {CONFIG.REKOG_COLLECTION_ID}}
  /\ alerts = <<>>
  /\ \E k \in PriorCallChoices : usage_log = History(k, "a@x.com", "Standard")
  /\ dbPending = {}
  /\ dbDone = {}
  /\ qres = [r \in Reqs |-> NoQuery]
  /\ sesLog = {}
  /\ ext = [r \in Reqs |-> NoCalls]
  /\ adm = [a \in AdminReqs |-> NoAdmin]
  /\ auth = NoAuth

\* ------------------------------------------------------------- responses
\* res.json({ ok: true, faces, key })
OkResponse(faces, key) == [status |-> 200, ok |-> TRUE, faces |-> faces, key |-> key, error |-> ""]

\* res.status(500).json({ error: err.message })
ErrorResponse(message) ==
  [status |-> 500, ok |-> FALSE, faces |-> <<>>, key |-> NoKey, error |-> message]

\* Mutant: the catch block answers without status(500).
catchError_NoStatus(r, message) ==
  /\ pc' = [pc EXCEPT ![r] = "done"]
  /\ resp' = [resp EXCEPT ![r] = [ErrorResponse(message) EXCEPT !.status = 200]]

\* Mutant: the catch block logs the error and sends nothing.
catchError_Silent(r, message) ==
  /\ pc' = [pc EXCEPT ![r] = "done"]
  /\ UNCHANGED resp

\* The handler's catch block: the call ends with the error response.
catchError(r, message) ==
  /\ pc' = [pc EXCEPT ![r] = "done"]
  /\ resp' = [resp EXCEPT ![r] = ErrorResponse(message)]

\* ------------------------------------------------------------- SES
\* Mutant: every email goes to the operator address.
SesTo_Operator(to) == CONFIG.SES_TO_EMAIL

\* Destination: { ToAddresses: [to || CONFIG.SES_TO_EMAIL] }
SesTo(to) == IF to = "" THEN CONFIG.SES_TO_EMAIL ELSE to

SesSend(r, to, subject, ok) == [req |-> r, to |-> SesTo(to), subject |-> subject, ok |-> ok]

\* ------------------------------------------------------------- /trigger-alert
\* The request arrives, its plan field among `plans`, its upload among
\* `files` and its email field among `emails`; the handler runs to its first
\* await (the S3 put).  Requests are numbered in the order they arrive.
ReceiveWith(r, plans, files, emails) ==
  /\ pc[r] = "idle"
  /\ \A q \in Reqs : q < r => pc[q] # "idle"
  /\ \E file \in files, plan \in plans, email \in emails, t \in now..MaxTime :
       /\ now' = t
       /\ IF ~file.present
          THEN \* req.file is undefined: req.file.path throws a TypeError
               /\ catchError(r, "TypeError")
               /\ UNCHANGED req
          ELSE /\ req' = [req EXCEPT ![r] =
                            [file |-> file,
                             key |-> [ts |-> t, name |-> file.originalname],
                             plan |-> IF plan = "" THEN "Free" ELSE plan,
                             userEmail |-> IF email = "" THEN CONFIG.SES_TO_EMAIL ELSE email,
                             faces |-> <<>>]]
               /\ pc' = [pc EXCEPT ![r] = "put"]
               /\ UNCHANGED resp
       /\ ext' = [ext EXCEPT ![r].tmp = IF file.present THEN "stored" ELSE "none"]
  /\ UNCHANGED <<s3, collections, auth, alerts, usage_log, dbPending, dbDone, qres, sesLog, adm>>

ReceiveFrom(r, plans) == ReceiveWith(r, plans, Uploads, EmailFields)

Receive(r) == ReceiveFrom(r, PlanFields)

\* A request that declares no plan.
ReceiveNoPlan(r) == ReceiveFrom(r, {""})

\* uploadToS3: the put succeeds; detectFaces starts with ListCollections.
S3PutOk(r) ==
  /\ pc[r] = "put"
  /\ s3' = s3 \cup {req[r].key}
  /\ pc' = [pc EXCEPT ![r] = "list"]
  /\ ext' = [ext EXCEPT ![r].put = "ok"]
  /\ UNCHANGED <<now, req, resp, collections, auth, alerts, usage_log, dbPending, dbDone, qres,
                 sesLog,
                 adm>>

\* Mutant: uploadToS3 swallows the error, as the other helpers do.
S3PutFail_Swallowed(r) ==
  /\ pc[r] = "put"
  /\ pc' = [pc EXCEPT ![r] = "list"]
  /\ ext' = [ext EXCEPT ![r].put = "failed"]
  /\ UNCHANGED <<now, req, resp, s3, collections, auth, alerts, usage_log, dbPending, dbDone, qres,
                 sesLog, adm>>

\* uploadToS3: the put fails and the error reaches the handler's catch.
S3PutFail(r) ==
  /\ pc[r] = "put"
  /\ catchError(r, "S3Error")
  /\ ext' = [ext EXCEPT ![r].put = "failed"]
  /\ UNCHANGED <<now, req, s3, collections, auth, alerts, usage_log, dbPending, dbDone, qres,
                 sesLog,
                 adm>>

\* Mutant: usage is logged only when the alert email is sent.
UsageStatements_WhenNotified(r, user, plan, faces, t) ==
  IF SendsAlert(faces)
  THEN { logUsage(r, user, plan, "email", PRICING.email, t),
         logUsage(r, user, plan, "app", PRICING.app, t) }
  ELSE {}

\* The usage entries a call logs: email, then app.
UsageStatements(r, user, plan, faces, t) ==
  { logUsage(r, user, plan, "email", PRICING.email, t),
    logUsage(r, user, plan, "app", PRICING.app, t) }

\* Mutant: the alert email is not awaited: the handler answers at once.
detectReturn_NoAwait(r, faces) ==
  \E t \in now..MaxTime :
    /\ now' = t
    /\ req' = [req EXCEPT ![r].faces = faces]
    /\ dbPending' = dbPending
         \cup {InsertAlert(r, AlertType(faces), t, req[r].key)}
         \cup UsageStatements(r, req[r].userEmail, req[r].plan, faces, t)
         \cup {checkAndTopUp(r, req[r].userEmail, req[r].plan, t)}
    /\ pc' = [pc EXCEPT ![r] = "done"]
    /\ resp' = [resp EXCEPT ![r] = OkResponse(faces, req[r].key)]

\* detectFaces has returned `faces`: the handler runs, without awaiting, from
\* the classification to the alert email (or to the response).  The block is
\* synchronous; its clock reads are one reading t.
detectReturn(r, faces) ==
  \E t \in now..MaxTime :
    /\ now' = t
    /\ req' = [req EXCEPT ![r].faces = faces]
    /\ dbPending' = dbPending
         \cup {InsertAlert(r, AlertType(faces), t, req[r].key)}
         \cup UsageStatements(r, req[r].userEmail, req[r].plan, faces, t)
         \cup {checkAndTopUp(r, req[r].userEmail, req[r].plan, t)}
    /\ IF SendsAlert(faces)
       THEN /\ pc' = [pc EXCEPT ![r] = "ses"]
            /\ UNCHANGED resp
       ELSE /\ pc' = [pc EXCEPT ![r] = "done"]
            /\ resp' = [resp EXCEPT ![r] = OkResponse(faces, req[r].key)]

\* Mutant: detectFaces lets the error reach the handler's catch.
detectCatch_Throws(r) ==
  /\ catchError(r, "RekognitionError")
  /\ UNCHANGED <<now, req, dbPending>>

\* detectFaces: catch (err) { return [] }
detectCatch(r) == detectReturn(r, <<>>)

ListOk(r) ==
  /\ pc[r] = "list"
  /\ pc' = [pc EXCEPT ![r] =
              IF CONFIG.REKOG_COLLECTION_ID \in collections THEN "search" ELSE "create"]
  /\ UNCHANGED <<now, req, resp, s3, collections, auth, alerts, usage_log, dbPending, dbDone, qres,
                 sesLog, ext, adm>>

ListFail(r) ==
  /\ pc[r] = "list"
  /\ detectCatch(r)
  /\ ext' = [ext EXCEPT ![r].rekog = "failed"]
  /\ UNCHANGED <<s3, collections, auth, alerts, usage_log, dbDone, qres, sesLog, adm>>

\* CreateCollection succeeds only while the collection does not exist.
CreateOk(r) ==
  /\ pc[r] = "create"
  /\ CONFIG.REKOG_COLLECTION_ID \notin collections
  /\ collections' = collections \cup {CONFIG.REKOG_COLLECTION_ID}
  /\ pc' = [pc EXCEPT ![r] = "search"]
  /\ UNCHANGED <<now, req, resp, s3, alerts, usage_log, dbPending, dbDone, qres, sesLog, ext,
                 adm, auth>>

CreateFail(r) ==
  /\ pc[r] = "create"
  /\ detectCatch(r)
  /\ ext' = [ext EXCEPT ![r].rekog = "failed"]
  /\ UNCHANGED <<s3, collections, auth, alerts, usage_log, dbDone, qres, sesLog, adm>>

SearchOk(r) ==
  /\ pc[r] = "search"
  /\ \E answer \in SearchAnswers :
       /\ detectReturn(r, FaceMatches(answer))
       /\ ext' = [ext EXCEPT ![r].rekog = "answered",
                              ![r].matched = (answer.defined /\ answer.list # <<>>)]
  /\ UNCHANGED <<s3, collections, auth, alerts, usage_log, dbDone, qres, sesLog, adm>>

SearchFail(r) ==
  /\ pc[r] = "search"
  /\ detectCatch(r)
  /\ ext' = [ext EXCEPT ![r].rekog = "failed"]
  /\ UNCHANGED <<s3, collections, auth, alerts, usage_log, dbDone, qres, sesLog, adm>>

\* The awaited alert email has been sent: the handler responds.
SesOk(r) ==
  /\ pc[r] = "ses"
  /\ sesLog' = sesLog \cup {SesSend(r, req[r].userEmail, CONFIG.ALERT_SUBJECT, TRUE)}
  /\ pc' = [pc EXCEPT ![r] = "done"]
  /\ resp' = [resp EXCEPT ![r] = OkResponse(req[r].faces, req[r].key)]
  /\ UNCHANGED <<now, req, s3, collections, auth, alerts, usage_log, dbPending, dbDone, qres,
                 ext, adm>>

\* Mutant: sendAlertEmail lets the error reach the handler's catch.
SesFail_Throws(r) ==
  /\ pc[r] = "ses"
  /\ sesLog' = sesLog \cup {SesSend(r, req[r].userEmail, CONFIG.ALERT_SUBJECT, FALSE)}
  /\ catchError(r, "SESError")
  /\ UNCHANGED <<now, req, s3, collections, auth, alerts, usage_log, dbPending, dbDone, qres,
                 ext, adm>>

\* The alert email failed: sendAlertEmail logs the error and returns.
SesFail(r) ==
  /\ pc[r] = "ses"
  /\ sesLog' = sesLog \cup {SesSend(r, req[r].userEmail, CONFIG.ALERT_SUBJECT, FALSE)}
  /\ pc' = [pc EXCEPT ![r] = "done"]
  /\ resp' = [resp EXCEPT ![r] = OkResponse(req[r].faces, req[r].key)]
  /\ UNCHANGED <<now, req, s3, collections, auth, alerts, usage_log, dbPending, dbDone, qres,
                 ext, adm>>

\* ------------------------------------------------------------- database
OwnUsageDone(r) == Cardinality({d \in dbDone : d.req = r /\ d.op = "INSERT usage_log"})

RunInsertAlert(s) ==
  /\ s.op = "INSERT alerts"
  /\ alerts' = Append(alerts, [id |-> Len(alerts) + 1, type |-> s.type,
                               timestamp |-> s.timestamp, image |-> s.image])
  /\ UNCHANGED <<usage_log, qres, sesLog>>

RunInsertUsage(s) ==
  /\ s.op = "INSERT usage_log"
  /\ usage_log' = usage_log (+)
       SetToBag({UsageRow(s.user, s.plan, s.channel, s.cost, s.timestamp)})
  /\ UNCHANGED <<alerts, qres, sesLog>>

\* Mutant: a call found over its ceiling is rolled back: the ledger rows of
\* its recipient are removed.
RunSelectSum_RollsBack(s) ==
  /\ s.op = "SELECT SUM"
  /\ LET row == SelectSum(usage_log, s.user, s.timestamp)
         notice == OverLimit(row, s.plan)
     IN /\ qres' = [qres EXCEPT ![s.req] =
                      [ran |-> TRUE, isNull |-> row.isNull, total |-> row.total,
                       notice |-> notice, monthTotal |-> row.total,
                       own |-> OwnUsageDone(s.req),
                       othersTotal |-> SumCost(usage_log,
                          {x \in BagToSet(usage_log) : x.user_email # s.user})]]
        /\ IF notice
           THEN /\ \E ok \in BOOLEAN :
                     sesLog' = sesLog \cup {SesSend(s.req, s.user, TOPUP_SUBJECT, ok)}
                /\ usage_log' = [x \in {y \in BagToSet(usage_log) : y.user_email # s.user} |->
                                   usage_log[x]]
           ELSE UNCHANGED <<sesLog, usage_log>>
  /\ UNCHANGED alerts

\* The callback of checkAndTopUp's query.  The top-up email is not awaited and
\* its failure is caught in sendAlertEmail: the send is logged with its outcome.
RunSelectSum(s) ==
  /\ s.op = "SELECT SUM"
  /\ LET row == SelectSum(usage_log, s.user, s.timestamp)
         notice == OverLimit(row, s.plan)
     IN /\ qres' = [qres EXCEPT ![s.req] =
                      [ran |-> TRUE, isNull |-> row.isNull, total |-> row.total,
                       notice |-> notice,
                       monthTotal |-> SumCost(usage_log,
                          {x \in BagToSet(usage_log) :
                             x.user_email = s.user /\ x.timestamp >= MonthStart(s.timestamp)}),
                       own |-> OwnUsageDone(s.req),
                       othersTotal |-> SumCost(usage_log,
                          {x \in BagToSet(usage_log) : x.user_email # s.user})]]
        /\ IF notice
           THEN \E ok \in BOOLEAN :
                  sesLog' = sesLog \cup {SesSend(s.req, s.user, TOPUP_SUBJECT, ok)}
           ELSE UNCHANGED sesLog
  /\ UNCHANGED <<alerts, usage_log>>

\* The database executes one of the queued statements.
DbRun(s) ==
  /\ s \in dbPending
  /\ dbPending' = dbPending \ {s}
  /\ dbDone' = dbDone \cup {s}
  /\ \/ RunInsertAlert(s)
     \/ RunInsertUsage(s)
     \/ RunSelectSum(s)
  /\ UNCHANGED <<now, pc, req, resp, s3, collections, auth, ext, adm>>

\* One step of the handler of request r, once received.
Handler(r) ==
  \/ S3PutOk(r)
  \/ S3PutFail(r)
  \/ ListOk(r)
  \/ ListFail(r)
  \/ CreateOk(r)
  \/ CreateFail(r)
  \/ SearchOk(r)
  \/ SearchFail(r)
  \/ SesOk(r)
  \/ SesFail(r)

\* One request, at any instants, on a ledger with or without history.
Next ==
  \/ Receive(1)
  \/ Handler(1)
  \/ \E s \in dbPending : DbRun(s)

Spec == Init /\ [][Next]_vars

\* The same, where every external call the handler awaits (the put, the
\* Rekognition calls, the alert email) returns or fails in the end.
SpecLive == Init /\ [][Next]_vars /\ WF_vars(Handler(1))

\* Two requests without a plan field, handled concurrently within one clock
\* instant, on empty tables.
InitPar ==
  /\ now = MaxTime
  /\ pc = [r \in Reqs |-> "idle"]
  /\ req = [r \in Reqs |-> NoLocals]
  /\ resp = [r \in Reqs |-> NoResp]
  /\ s3 = {}
  /\ collections = {}
  /\ alerts = <<>>
  /\ usage_log = EmptyBag
  /\ dbPending = {}
  /\ dbDone = {}
  /\ qres = [r \in Reqs |-> NoQuery]
  /\ sesLog = {}
  /\ ext = [r \in Reqs |-> NoCalls]
  /\ adm = [a \in AdminReqs |-> NoAdmin]
  /\ auth = NoAuth

NextPar ==
  \/ \E r \in Reqs : ReceiveNoPlan(r) \/ Handler(r)
  \/ \E s \in dbPending : DbRun(s)

SpecPar == InitPar /\ [][NextPar]_vars

\* Two requests handled concurrently within one clock instant, on empty
\* tables: the first without a plan field, the second with plan Standard.
NextMix ==
  \/ ReceiveNoPlan(1)
  \/ ReceiveFrom(2, {"Standard"})
  \/ \E r \in Reqs : Handler(r)
  \/ \E s \in dbPending : DbRun(s)

SpecMix == InitPar /\ [][NextMix]_vars

\* Two requests of plan Standard and one recipient, each with one of two
\* original names,
\* received in the last two clock instants and handled concurrently; the
\* collection exists and every external call succeeds.
InitKey ==
  /\ now = MaxTime - 1
  /\ pc = [r \in Reqs |-> "idle"]
  /\ req = [r \in Reqs |-> NoLocals]
  /\ resp = [r \in Reqs |-> NoResp]
  /\ s3 = {}
  /\ collections = {CONFIG.REKOG_COLLECTION_ID}
  /\ alerts = <<>>
  /\ usage_log = EmptyBag
  /\ dbPending = {}
  /\ dbDone = {}
  /\ qres = [r \in Reqs |-> NoQuery]
  /\ sesLog = {}
  /\ ext = [r \in Reqs |-> NoCalls]
  /\ adm = [a \in AdminReqs |-> NoAdmin]
  /\ auth = NoAuth

NextKey ==
  \/ \E r \in Reqs : ReceiveWith(r, {"Standard"}, NamedUploads, {"a@x.com"})
  \/ \E r \in Reqs : S3PutOk(r) \/ ListOk(r) \/ SearchOk(r) \/ SesOk(r)
  \/ \E s \in dbPending : DbRun(s)

SpecKey == InitKey /\ [][NextKey]_vars

\* ------------------------------------------------------------- /trigger-alert, v3.4
\* handleTriggerAlert of src/unnamed/part_012: detectFaces comes before
\* uploadToS3, and a finally block removes the uploaded file.

\* Mutant: the handler has no finally block.
finallyUnlink_Never(calls) == {calls}

\* finally { try { fs.unlinkSync(req?.file?.path); } catch {} }: what the
\* block can leave of a call's record.  The removal of a stored file succeeds
\* or throws; without a file the path is undefined and unlinkSync throws.
\* The throw is swallowed.
finallyUnlink(calls) ==
  IF calls.tmp = "stored"
  THEN {[calls EXCEPT !.tmp = "removed", !.unlink = "ok"], [calls EXCEPT !.unlink = "failed"]}
  ELSE {[calls EXCEPT !.unlink = "failed"]}

\* The handler leaves through its finally block.
V34Exit(r, calls) == \E c \in finallyUnlink(calls) : ext' = [ext EXCEPT ![r] = c]

\* fs.readFileSync(localPath) by helper `who`: the file must be there.
readFileSync(calls, who) == [calls EXCEPT !.reads = @ \cup {who}]

\* The request arrives and the handler runs to its first await, the
\* ListCollections of detectFaces.  The plan field is absent or names a plan.
handleTriggerAlert(r) ==
  /\ pc[r] = "idle"
  /\ \A q \in Reqs : q < r => pc[q] # "idle"
  /\ \E file \in Uploads, plan \in {"", "Standard"}, email \in EmailFields :
       IF ~file.present
       THEN \* req.file is undefined: req.file.path throws a TypeError
            /\ catchError(r, "TypeError")
            /\ V34Exit(r, ext[r])
            /\ UNCHANGED req
       ELSE /\ req' = [req EXCEPT ![r] =
                         [file |-> file,
                          key |-> [ts |-> now, name |-> file.originalname],
                          plan |-> IF plan = "" THEN "Free" ELSE plan,
                          userEmail |-> IF email = "" THEN CONFIG.SES_TO_EMAIL ELSE email,
                          faces |-> <<>>]]
            /\ pc' = [pc EXCEPT ![r] = "v34 list"]
            /\ ext' = [ext EXCEPT ![r].tmp = "stored"]
            /\ UNCHANGED resp
  /\ UNCHANGED <<now, s3, collections, auth, alerts, usage_log, dbPending, dbDone, qres, sesLog,
                 adm>>

\* detectFaces is at its SearchFacesByImage: it has read the file, or the
\* read threw and its catch returns [].
V34ToSearch(r) ==
  IF ext[r].tmp = "stored"
  THEN /\ pc' = [pc EXCEPT ![r] = "v34 search"]
       /\ ext' = [ext EXCEPT ![r] = readFileSync(@, "detectFaces")]
  ELSE /\ pc' = [pc EXCEPT ![r] = "v34 put"]
       /\ ext' = [ext EXCEPT ![r].rekog = "failed"]

\* detectFaces has returned `faces`: uploadToS3 reads the file and sends the
\* put, or the read throws into the handler's catch.
V34DetectReturn(r, faces, rekog, matched) ==
  /\ req' = [req EXCEPT ![r].faces = faces]
  /\ IF ext[r].tmp = "stored"
     THEN /\ pc' = [pc EXCEPT ![r] = "v34 put"]
          /\ ext' = [ext EXCEPT ![r] =
                       readFileSync([@ EXCEPT !.rekog = rekog, !.matched = matched],
                                    "uploadToS3")]
          /\ UNCHANGED resp
     ELSE /\ catchError(r, "ENOENT")
          /\ V34Exit(r, [ext[r] EXCEPT !.rekog = rekog, !.matched = matched])

V34ListOk(r) ==
  /\ pc[r] = "v34 list"
  /\ IF CONFIG.REKOG_COLLECTION_ID \in collections
     THEN V34ToSearch(r)
     ELSE /\ pc' = [pc EXCEPT ![r] = "v34 create"]
          /\ UNCHANGED ext
  /\ UNCHANGED <<now, req, resp, s3, collections, auth, alerts, usage_log, dbPending, dbDone, qres,
                 sesLog, adm>>

V34ListFail(r) ==
  /\ pc[r] = "v34 list"
  /\ V34DetectReturn(r, <<>>, "failed", FALSE)
  /\ UNCHANGED <<now, s3, collections, auth, alerts, usage_log, dbPending, dbDone, qres, sesLog,
                 adm>>

V34CreateOk(r) ==
  /\ pc[r] = "v34 create"
  /\ CONFIG.REKOG_COLLECTION_ID \notin collections
  /\ collections' = collections \cup {CONFIG.REKOG_COLLECTION_ID}
  /\ V34ToSearch(r)
  /\ UNCHANGED <<now, req, resp, s3, alerts, usage_log, dbPending, dbDone, qres, sesLog, adm,
                 auth>>

V34CreateFail(r) ==
  /\ pc[r] = "v34 create"
  /\ V34DetectReturn(r, <<>>, "failed", FALSE)
  /\ UNCHANGED <<now, s3, collections, auth, alerts, usage_log, dbPending, dbDone, qres, sesLog,
                 adm>>

V34SearchOk(r) ==
  /\ pc[r] = "v34 search"
  /\ \E answer \in SearchAnswers :
       V34DetectReturn(r, FaceMatches(answer), "answered",
                       answer.defined /\ answer.list # <<>>)
  /\ UNCHANGED <<now, s3, collections, auth, alerts, usage_log, dbPending, dbDone, qres, sesLog,
                 adm>>

V34SearchFail(r) ==
  /\ pc[r] = "v34 search"
  /\ V34DetectReturn(r, <<>>, "failed", FALSE)
  /\ UNCHANGED <<now, s3, collections, auth, alerts, usage_log, dbPending, dbDone, qres, sesLog,
                 adm>>

\* The put is stored: the handler runs, without awaiting, from the
\* classification to the alert email, or to the response and the finally.
V34PutOk(r) ==
  /\ pc[r] = "v34 put"
  /\ s3' = s3 \cup {req[r].key}
  /\ dbPending' = dbPending
       \cup {InsertAlert(r, AlertType(req[r].faces), now, req[r].key)}
       \cup UsageStatements(r, req[r].userEmail, req[r].plan, req[r].faces, now)
       \cup {checkAndTopUp(r, req[r].userEmail, req[r].plan, now)}
  /\ IF SendsAlert(req[r].faces)
     THEN /\ pc' = [pc EXCEPT ![r] = "v34 ses"]
          /\ ext' = [ext EXCEPT ![r].put = "ok"]
          /\ UNCHANGED resp
     ELSE /\ pc' = [pc EXCEPT ![r] = "done"]
          /\ resp' = [resp EXCEPT ![r] = OkResponse(req[r].faces, req[r].key)]
          /\ V34Exit(r, [ext[r] EXCEPT !.put = "ok"])
  /\ UNCHANGED <<now, req, collections, auth, alerts, usage_log, dbDone, qres, sesLog, adm>>

\* The put fails: catch answers 500, then the finally.
V34PutFail(r) ==
  /\ pc[r] = "v34 put"
  /\ catchError(r, "S3Error")
  /\ V34Exit(r, [ext[r] EXCEPT !.put = "failed"])
  /\ UNCHANGED <<now, req, s3, collections, auth, alerts, usage_log, dbPending, dbDone, qres,
                 sesLog,
                 adm>>

\* The awaited alert email was sent or failed (sendAlertEmail swallows the
\* failure): the handler responds, then the finally.
V34Ses(r) ==
  /\ pc[r] = "v34 ses"
  /\ \E ok \in BOOLEAN :
       sesLog' = sesLog \cup {SesSend(r, req[r].userEmail, CONFIG.ALERT_SUBJECT, ok)}
  /\ pc' = [pc EXCEPT ![r] = "done"]
  /\ resp' = [resp EXCEPT ![r] = OkResponse(req[r].faces, req[r].key)]
  /\ V34Exit(r, ext[r])
  /\ UNCHANGED <<now, req, s3, collections, auth, alerts, usage_log, dbPending, dbDone, qres, adm>>

\* One request to the v3.4 handler in one clock instant; the collection may
\* be missing.
InitV34 ==
  /\ now = MaxTime
  /\ pc = [r \in Reqs |-> "idle"]
  /\ req = [r \in Reqs |-> NoLocals]
  /\ resp = [r \in Reqs |-> NoResp]
  /\ s3 = {}
  /\ collections \in {{}, {CONFIG.REKOG_COLLECTION_ID}}
  /\ alerts = <<>>
  /\ usage_log = EmptyBag
  /\ dbPending = {}
  /\ dbDone = {}
  /\ qres = [r \in Reqs |-> NoQuery]
  /\ sesLog = {}
  /\ ext = [r \in Reqs |-> NoCalls]
  /\ adm = [a \in AdminReqs |-> NoAdmin]
  /\ auth = NoAuth

NextV34 ==
  \/ handleTriggerAlert(1)
  \/ V34ListOk(1)
  \/ V34ListFail(1)
  \/ V34CreateOk(1)
  \/ V34CreateFail(1)
  \/ V34SearchOk(1)
  \/ V34SearchFail(1)
  \/ V34PutOk(1)
  \/ V34PutFail(1)
  \/ V34Ses(1)
  \/ \E s \in dbPending : DbRun(s)

SpecV34 == InitV34 /\ [][NextV34]_vars

\* ------------------------------------------------------------- billing and replay endpoints
\* Request a arrives; the requests to these endpoints are numbered in the
\* order they arrive.
Arrives(a) ==
  /\ adm[a].state = "idle"
  /\ \A b \in AdminReqs : b < a => adm[b].state # "idle"

\* The record of a request that arrives now; `responded` is history: the
\* requests of either kind that have been answered so far.
Arrival(kind) ==
  [NoAdmin EXCEPT
     !.kind = kind,
     !.state = "query",
     !.responded = {r \in Reqs : pc[r] = "done"} \cup {b \in AdminReqs : adm[b].state = "done"}]

\* SELECT channel, COUNT(*) as count, SUM(cost_usd) as total FROM usage_log
\*   WHERE user_email = ? AND timestamp >= ? GROUP BY channel
SelectByChannel(a, email, sinceISO) ==
  Stmt(a, "SELECT GROUP BY channel", "", NoKey, email, "", "", 0, sinceISO)
\* DELETE FROM usage_log
DeleteUsage(a) == Stmt(a, "DELETE usage_log", "", NoKey, "", "", "", 0, 0)
\* SELECT * FROM usage_log
SelectUsage(a) == Stmt(a, "SELECT usage_log", "", NoKey, "", "", "", 0, 0)
\* SELECT * FROM alerts ORDER BY id DESC LIMIT 10
SelectLastAlerts(a) == Stmt(a, "SELECT alerts", "", NoKey, "", "", "", 0, 0)
\* SELECT * FROM alerts WHERE id = ?   (the id is adm[a].id)
SelectAlert(a) == Stmt(a, "SELECT alert", "", NoKey, "", "", "", 0, 0)

RECURSIVE CountRows(_, _)
CountRows(bag, rows) ==
  IF rows = {} THEN 0
  ELSE LET row == CHOOSE x \in rows : TRUE
       IN bag[row] + CountRows(bag, rows \ {row})

\* Mutant: the summary query without its WHERE user_email = ?.
GroupByChannel_AllUsers(log, user, sinceISO) ==
  LET rows == {row \in BagToSet(log) : row.timestamp >= sinceISO}
      OfChannel(c) == {row \in rows : row.channel = c}
  IN {[channel |-> c, count |-> CountRows(log, OfChannel(c)), total |-> SumCost(log, OfChannel(c))] :
        c \in {row.channel : row \in rows}}

\* The rows the summary query returns: one per channel that has a row of the
\* user since sinceISO.
GroupByChannel(log, user, sinceISO) ==
  LET rows == {row \in BagToSet(log) : row.user_email = user /\ row.timestamp >= sinceISO}
      OfChannel(c) == {row \in rows : row.channel = c}
  IN {[channel |-> c, count |-> CountRows(log, OfChannel(c)), total |-> SumCost(log, OfChannel(c))] :
        c \in {row.channel : row \in rows}}

\* rows.reduce((a, b) => a + (b.total || 0), 0)
RECURSIVE TotalCost(_)
TotalCost(rows) ==
  IF rows = {} THEN 0
  ELSE LET b == CHOOSE x \in rows : TRUE
       IN b.total + TotalCost(rows \ {b})

\* ORDER BY id DESC LIMIT 10: the newest rows, newest first.
Replay(rows) ==
  [i \in 1..(IF Len(rows) < REPLAY_LIMIT THEN Len(rows) ELSE REPLAY_LIMIT) |->
     rows[Len(rows) + 1 - i]]

\* Mutant: the handler does not check the email before it queries.
UsageSummary_NoCheck(a) ==
  /\ Arrives(a)
  /\ \E email \in EmailFields, t \in now..MaxTime :
       /\ now' = t
       /\ dbPending' = dbPending \cup {SelectByChannel(a, email, setDate1(t))}
       /\ adm' = [adm EXCEPT ![a] = [Arrival("usage-summary") EXCEPT !.email = email]]
  /\ UNCHANGED <<pc, req, resp, s3, collections, auth, alerts, usage_log, dbDone, qres, sesLog,
                 ext>>

\* GET /api/usage-summary: without an email the handler answers 400; else it
\* reads the clock, computes sinceISO as checkAndTopUp does and queues the
\* query.  The month label of the response is not kept.
UsageSummary(a) ==
  /\ Arrives(a)
  /\ \E email \in EmailFields :
       IF email = ""
       THEN /\ adm' = [adm EXCEPT ![a] =
                         [Arrival("usage-summary") EXCEPT
                            !.state = "done", !.status = 400, !.error = "Missing email"]]
            /\ UNCHANGED <<now, dbPending>>
       ELSE \E t \in now..MaxTime :
              /\ now' = t
              /\ dbPending' = dbPending \cup {SelectByChannel(a, email, setDate1(t))}
              /\ adm' = [adm EXCEPT ![a] = [Arrival("usage-summary") EXCEPT !.email = email]]
  /\ UNCHANGED <<pc, req, resp, s3, collections, auth, alerts, usage_log, dbDone, qres, sesLog,
                 ext>>

\* The callback of the summary query: res.json({ email, month, total_cost_usd, details }).
RunSelectByChannel(s) ==
  /\ s.op = "SELECT GROUP BY channel"
  /\ LET rows == GroupByChannel(usage_log, s.user, s.timestamp)
         totalCost == TotalCost(rows)
     IN adm' = [adm EXCEPT
                  ![s.req].state = "done",
                  ![s.req].status = 200,
                  ![s.req].total_cost_usd = toFixed3(totalCost),
                  ![s.req].details = rows,
                  ![s.req].monthTotal =
                     SumCost(usage_log,
                       {x \in BagToSet(usage_log) :
                          x.user_email = s.user /\ x.timestamp >= MonthStart(s.timestamp)}),
                  ![s.req].monthDetails =
                     GroupByChannel(usage_log, s.user, MonthStart(s.timestamp)),
                  ![s.req].otherRows =
                     CountRows(usage_log, {x \in BagToSet(usage_log) : x.user_email # s.user})]
  /\ UNCHANGED <<alerts, usage_log>>

\* POST /api/usage-reset queues the DELETE.
UsageReset(a) ==
  /\ Arrives(a)
  /\ dbPending' = dbPending \cup {DeleteUsage(a)}
  /\ adm' = [adm EXCEPT ![a] = Arrival("usage-reset")]
  /\ UNCHANGED <<now, pc, req, resp, s3, collections, auth, alerts, usage_log, dbDone, qres,
                 sesLog,
                 ext>>

\* Mutant: the DELETE removes the rows of one recipient only.
DeleteFrom_OneRecipient(log) ==
  LET kept == {row \in BagToSet(log) : row.user_email # "a@x.com"}
  IN [row \in kept |-> log[row]]

\* What DELETE FROM usage_log leaves of the table.
DeleteFrom(log) == EmptyBag

\* Mutant: the reset purges the alerts table as well.
RunDeleteUsage_Purge(s) ==
  /\ s.op = "DELETE usage_log"
  /\ usage_log' = DeleteFrom(usage_log)
  /\ alerts' = <<>>
  /\ adm' = [adm EXCEPT ![s.req].state = "done", ![s.req].status = 200, ![s.req].ok = TRUE]

\* The callback of the DELETE: res.json({ ok: true, message }).
RunDeleteUsage(s) ==
  /\ s.op = "DELETE usage_log"
  /\ usage_log' = DeleteFrom(usage_log)
  /\ adm' = [adm EXCEPT ![s.req].state = "done", ![s.req].status = 200, ![s.req].ok = TRUE]
  /\ UNCHANGED alerts

\* GET /api/usage-export queues SELECT * FROM usage_log.
UsageExport(a) ==
  /\ Arrives(a)
  /\ dbPending' = dbPending \cup {SelectUsage(a)}
  /\ adm' = [adm EXCEPT ![a] = Arrival("usage-export")]
  /\ UNCHANGED <<now, pc, req, resp, s3, collections, auth, alerts, usage_log, dbDone, qres,
                 sesLog,
                 ext>>

\* The callback of the export query sends one CSV line per row.
RunSelectUsage(s) ==
  /\ s.op = "SELECT usage_log"
  /\ adm' = [adm EXCEPT ![s.req].state = "done", ![s.req].status = 200,
                        ![s.req].ledger = usage_log]
  /\ UNCHANGED <<alerts, usage_log>>

\* GET /api/elite/replay queues the query of the last alerts.
ReplayAlerts(a) ==
  /\ Arrives(a)
  /\ dbPending' = dbPending \cup {SelectLastAlerts(a)}
  /\ adm' = [adm EXCEPT ![a] = Arrival("replay")]
  /\ UNCHANGED <<now, pc, req, resp, s3, collections, auth, alerts, usage_log, dbDone, qres,
                 sesLog,
                 ext>>

\* The callback of the replay query: res.json(rows).
RunSelectLastAlerts(s) ==
  /\ s.op = "SELECT alerts"
  /\ adm' = [adm EXCEPT ![s.req].state = "done", ![s.req].status = 200,
                        ![s.req].rows = Replay(alerts)]
  /\ UNCHANGED <<alerts, usage_log>>

\* GET /api/elite/incident-pdf/:id queues the query of one alert.
IncidentPdf(a) ==
  /\ Arrives(a)
  /\ \E id \in IncidentIds :
       adm' = [adm EXCEPT ![a] = [Arrival("incident-pdf") EXCEPT !.id = id]]
  /\ dbPending' = dbPending \cup {SelectAlert(a)}
  /\ UNCHANGED <<now, pc, req, resp, s3, collections, auth, alerts, usage_log, dbDone, qres,
                 sesLog,
                 ext>>

\* The callback of the incident query: 404 when there is no such row, else
\* the report of the row.
RunSelectAlert(s) ==
  /\ s.op = "SELECT alert"
  /\ IF adm[s.req].id \in 1..Len(alerts)
     THEN adm' = [adm EXCEPT ![s.req].state = "done", ![s.req].status = 200,
                             ![s.req].rows = <<alerts[adm[s.req].id]>>]
     ELSE adm' = [adm EXCEPT ![s.req].state = "done", ![s.req].status = 404,
                             ![s.req].error = "Incident not found."]
  /\ UNCHANGED <<alerts, usage_log>>

\* The database executes one of the statements queued by these endpoints.
AdminDbRun(s) ==
  /\ s \in dbPending
  /\ dbPending' = dbPending \ {s}
  /\ dbDone' = dbDone \cup {s}
  /\ \/ RunSelectByChannel(s)
     \/ RunDeleteUsage(s)
     \/ RunSelectUsage(s)
     \/ RunSelectLastAlerts(s)
     \/ RunSelectAlert(s)
  /\ UNCHANGED <<now, pc, req, resp, s3, collections, auth, qres, sesLog, ext>>

\* One request to one of the billing and replay endpoints.
Admin(a) ==
  \/ UsageSummary(a)
  \/ UsageReset(a)
  \/ UsageExport(a)
  \/ ReplayAlerts(a)
  \/ IncidentPdf(a)

\* One /trigger-alert call without a plan field and two requests to the
\* billing and replay endpoints, in any order and interleaving, within one
\* clock instant, on a ledger that holds one earlier call of a@x.com.
InitOps ==
  /\ now = MaxTime
  /\ pc = [r \in Reqs |-> "idle"]
  /\ req = [r \in Reqs |-> NoLocals]
  /\ resp = [r \in Reqs |-> NoResp]
  /\ s3 = {}
  /\ collections = {}
  /\ alerts = <<>>
  /\ usage_log = History(1, "a@x.com", "Standard")
  /\ dbPending = {}
  /\ dbDone = {}
  /\ qres = [r \in Reqs |-> NoQuery]
  /\ sesLog = {}
  /\ ext = [r \in Reqs |-> NoCalls]
  /\ adm = [a \in AdminReqs |-> NoAdmin]
  /\ auth = NoAuth

NextOps ==
  \/ ReceiveNoPlan(1)
  \/ Handler(1)
  \/ \E s \in dbPending : DbRun(s)
  \/ \E a \in AdminReqs : Admin(a)
  \/ \E s \in dbPending : AdminDbRun(s)

SpecOps == InitOps /\ [][NextOps]_vars

\* One /trigger-alert call without a plan field and one usage-summary, at any
\* instants, on a ledger with or without history.
NextSum ==
  \/ ReceiveNoPlan(1)
  \/ Handler(1)
  \/ \E s \in dbPending : DbRun(s)
  \/ UsageSummary(3)
  \/ \E s \in dbPending : AdminDbRun(s)

SpecSum == Init /\ [][NextSum]_vars

\* ------------------------------------------------------------- email verification
\* src/utils/tokenmanager.js and the /resend and /verify routes of
\* src/routes/authroutes.js.  A token is modelled by what of it the
\* verification looks at: whether it is a JWT at all, the key that signed it,
\* and its claims email, iat and exp (NumericDate: whole seconds).
JWT_SECRET == "server-secret"
NoToken == [form |-> "none", email |-> "", iat |-> 0, exp |-> 0, key |-> ""]
Malformed == [form |-> "garbage", email |-> "", iat |-> 0, exp |-> 0, key |-> ""]

\* Math.floor(Date.now() / 1000)
Seconds(t) == t \div TicksPerSecond

\* jwt.sign({ email }, key, { expiresIn: "24h" }) at instant t
jwtSign(email, key, t) ==
  [form |-> "jwt", email |-> email, iat |-> Seconds(t), exp |-> Seconds(t) + ExpiresIn,
   key |-> key]

\* jwt.verify(token, key) at instant t: the payload, or a throw for a missing
\* or malformed token, a signature of another key, or a token whose exp has
\* been reached.
jwtVerify(token, key, t) ==
  IF token.form # "jwt" THEN [threw |-> TRUE, email |-> ""]
  ELSE IF token.key # key THEN [threw |-> TRUE, email |-> ""]
  ELSE IF Seconds(t) >= token.exp THEN [threw |-> TRUE, email |-> ""]
  ELSE [threw |-> FALSE, email |-> token.email]

createVerificationToken(email, t) == jwtSign(email, JWT_SECRET, t)

\* Mutant: the token is decoded without verification.
verifyToken_Decode(token, t) ==
  IF token.form # "jwt" THEN [null |-> TRUE, email |-> ""]
  ELSE [null |-> FALSE, email |-> token.email]

\* verifyToken: the decoded payload, or null when jwt.verify throws.
verifyToken(token, t) ==
  LET decoded == jwtVerify(token, JWT_SECRET, t)
  IN IF decoded.threw THEN [null |-> TRUE, email |-> ""]
     ELSE [null |-> FALSE, email |-> decoded.email]

\* Tokens a client can put in the query of GET /verify: none, a string that
\* is no JWT, a token the server created, or a token with any claims signed
\* with a key of the client's.
Presentable ==
  {NoToken, Malformed}
    \cup {i.token : i \in auth.issued}
    \cup {jwtSign("a@x.com", "other-secret", t) : t \in 0..MaxClock}

\* The clock advances.
Tick ==
  /\ now < MaxClock
  /\ now' = now + 1
  /\ UNCHANGED <<pc, req, resp, s3, collections, alerts, usage_log, dbPending, dbDone, qres,
                 sesLog, ext, adm, auth>>

\* POST /resend: 400 without an email; else a token is created and mailed,
\* and the response is 200, or 500 when sendEmail throws.
Resend ==
  /\ Cardinality(auth.issued) < MaxTokens
  /\ \E email \in EmailFields :
       IF email = ""
       THEN auth' = [auth EXCEPT !.resend = 400]
       ELSE \E status \in {200, 500} :
              auth' = [auth EXCEPT
                         !.issued = @ \cup {[token |-> createVerificationToken(email, now),
                                              at |-> now]},
                         !.resend = status]
  /\ UNCHANGED <<now, pc, req, resp, s3, collections, alerts, usage_log, dbPending, dbDone, qres,
                 sesLog, ext, adm>>

\* GET /verify?token=...: the expired page when verifyToken returns null,
\* else the success page.  `again` notes that the request before presented
\* the same token and was served the success page.
Verify ==
  /\ \E token \in Presentable :
       LET decoded == verifyToken(token, now)
           page == IF decoded.null THEN "verify-expired.html" ELSE "verified-success.html"
       IN auth' = [auth EXCEPT
                     !.last = [token |-> token, at |-> now, page |-> page,
                               again |-> /\ auth.last.token = token
                                         /\ auth.last.page = "verified-success.html"]]
  /\ UNCHANGED <<now, pc, req, resp, s3, collections, alerts, usage_log, dbPending, dbDone, qres,
                 sesLog, ext, adm>>

InitAuth ==
  /\ now = 0
  /\ pc = [r \in Reqs |-> "idle"]
  /\ req = [r \in Reqs |-> NoLocals]
  /\ resp = [r \in Reqs |-> NoResp]
  /\ s3 = {}
  /\ collections = {}
  /\ alerts = <<>>
  /\ usage_log = EmptyBag
  /\ dbPending = {}
  /\ dbDone = {}
  /\ qres = [r \in Reqs |-> NoQuery]
  /\ sesLog = {}
  /\ ext = [r \in Reqs |-> NoCalls]
  /\ adm = [a \in AdminReqs |-> NoAdmin]
  /\ auth = NoAuth

NextAuth ==
  \/ Tick
  \/ Resend
  \/ Verify

SpecAuth == InitAuth /\ [][NextAuth]_vars

\* ============================================================= properties
Issued(r) == {s \in dbPending \cup dbDone : s.req = r}
IssuedOp(r, op) == {s \in Issued(r) : s.op = op}
DoneOp(op) == {s \in dbDone : s.op = op}
EmailsOf(r, subject) == {e \in sesLog : e.req = r /\ e.subject = subject}
Classified(r, type) == \E s \in IssuedOp(r, "INSERT alerts") : s.type = type
\* Every executed insert has its row in its table.
RowsInPlace ==
  /\ \A s \in DoneOp("INSERT alerts") :
       \E i \in 1..Len(alerts) :
         /\ alerts[i].type = s.type
         /\ alerts[i].image = s.image
         /\ alerts[i].timestamp = s.timestamp
  /\ \A s \in DoneOp("INSERT usage_log") :
       BagIn(UsageRow(s.user, s.plan, s.channel, s.cost, s.timestamp), usage_log)

\* C1: a call that answered {ok:true} has queued exactly one insert into
\* alerts and exactly two into usage_log, channel email at 0.002 and channel
\* app at 0.001, whatever the match list; the tables hold exactly one row per
\* executed insert.
C1_OkCallInsertsOneAlertTwoUsage ==
  /\ \A r \in Reqs :
       resp[r].ok =>
         /\ Cardinality(IssuedOp(r, "INSERT alerts")) = 1
         /\ Cardinality(IssuedOp(r, "INSERT usage_log")) = 2
         /\ {<<s.channel, s.cost, s.user, s.plan>> : s \in IssuedOp(r, "INSERT usage_log")}
              = { <<"email", 2, req[r].userEmail, req[r].plan>>,
                  <<"app", 1, req[r].userEmail, req[r].plan>> }
  /\ Len(alerts) = Cardinality(DoneOp("INSERT alerts"))
  /\ BagCardinality(usage_log) = Cardinality(DoneOp("INSERT usage_log"))
  /\ RowsInPlace

\* Two calls answered {ok:true}, one with matches and one without, and every
\* statement has been executed.
C1_Witness ==
  /\ \A r \in Reqs : resp[r].ok
  /\ \E r, q \in Reqs : req[r].faces # <<>> /\ req[q].faces = <<>>
  /\ dbPending = {}
  /\ Len(alerts) = 2
  /\ BagCardinality(usage_log) = 4

\* C2: the alert insert of a call has type known_face exactly when the Face
\* Match client answered that call with a non-empty match list, and
\* unknown_face otherwise; every row of alerts is the row of such an insert.
C2_TypeIffMatched ==
  /\ \A r \in Reqs : \A s \in IssuedOp(r, "INSERT alerts") :
       /\ s.type \in {"known_face", "unknown_face"}
       /\ s.type = "known_face" <=> (ext[r].rekog = "answered" /\ ext[r].matched)
  /\ \A i \in 1..Len(alerts) :
       /\ alerts[i].type \in {"known_face", "unknown_face"}
       /\ \E s \in DoneOp("INSERT alerts") :
            alerts[i].type = s.type /\ alerts[i].image = s.image

\* The table holds a known_face row and an unknown_face row.
C2_Witness ==
  /\ \E i \in 1..Len(alerts) : alerts[i].type = "known_face"
  /\ \E i \in 1..Len(alerts) : alerts[i].type = "unknown_face"

\* C3 as stated: a call sends an email to its recipient address exactly when
\* it is classified unknown_face; a known_face call sends none.
C3_NotifiedIffUnknown ==
  \A r \in Reqs :
    (pc[r] = "done" /\ resp[r].ok) =>
      ((\E e \in sesLog : e.req = r /\ e.to = req[r].userEmail)
         <=> Classified(r, "unknown_face"))

\* C3 amended: the alert email (subject ALERT_SUBJECT) is attempted, once and
\* to the recipient address, exactly by the calls classified unknown_face; a
\* known_face call sends no alert email, and whatever it sends to the
\* recipient address is the top-up notice.
C3_AlertEmailIffUnknown ==
  \A r \in Reqs :
    /\ Classified(r, "known_face") =>
         /\ EmailsOf(r, CONFIG.ALERT_SUBJECT) = {}
         /\ \A e \in sesLog : e.req = r => e.subject = TOPUP_SUBJECT
         /\ pc[r] = "done"
    /\ Classified(r, "unknown_face") =>
         /\ pc[r] \in {"ses", "done"}
         /\ pc[r] = "done" =>
              /\ Cardinality(EmailsOf(r, CONFIG.ALERT_SUBJECT)) = 1
              /\ \A e \in EmailsOf(r, CONFIG.ALERT_SUBJECT) : e.to = req[r].userEmail
    /\ EmailsOf(r, CONFIG.ALERT_SUBJECT) # {} => Classified(r, "unknown_face")

\* A known_face call whose recipient was sent the top-up notice.
C3_Witness ==
  \E r \in Reqs :
    /\ Classified(r, "known_face")
    /\ resp[r].ok
    /\ \E e \in EmailsOf(r, TOPUP_SUBJECT) : e.to = req[r].userEmail

\* C4 as stated: the ceiling check of a call with a known plan sends the
\* top-up notice exactly when the recipient's cost since the first instant of
\* the month is greater than the plan's ceiling.
C4_TopUpIffOverCeiling ==
  \A r \in Reqs :
    (qres[r].ran /\ req[r].plan \in DOMAIN PLAN_LIMITS) =>
      (qres[r].notice <=> qres[r].monthTotal > PLAN_LIMITS[req[r].plan])

\* C5 as stated: the sum the ceiling check compares includes both usage
\* entries of the same call, in whatever order the statements are executed.
C5_SumIncludesOwnEntries ==
  \A r \in Reqs : qres[r].ran => qres[r].own = 2

\* The scenario of C6: one call on empty tables, plan Free, recipient a@x.com,
\* the put stored, an empty match list, and everything the call started has
\* finished.
C6_Scenario ==
  /\ pc[1] = "done"
  /\ dbPending = {}
  /\ req[1].plan = "Free"
  /\ req[1].userEmail = "a@x.com"
  /\ ext[1].put = "ok"
  /\ ext[1].rekog = "answered"
  /\ ~ext[1].matched
  /\ BagCardinality(usage_log) = Cardinality(DoneOp("INSERT usage_log"))

C6_Tables ==
  /\ resp[1].status = 200
  /\ resp[1].ok
  /\ resp[1].faces = <<>>
  /\ resp[1].key = [ts |-> req[1].key.ts, name |-> req[1].file.originalname]
  /\ Len(alerts) = 1
  /\ alerts[1].type = "unknown_face"
  /\ alerts[1].image = resp[1].key
  /\ BagCardinality(usage_log) = 2
  /\ {row.channel : row \in BagToSet(usage_log)} = {"email", "app"}

\* C6 as stated: the scenario ends with exactly one notification attempted to
\* a@x.com.
C6_ExactlyOneNotification ==
  C6_Scenario =>
    /\ C6_Tables
    /\ Cardinality({e \in sesLog : e.to = "a@x.com"}) = 1

\* C6 amended: the scenario ends with the stated response, one unknown_face
\* alert row and two usage rows, and with one alert email attempted to
\* a@x.com plus at most one top-up notice to a@x.com, which is sent when the
\* ceiling query found a usage entry.
C6_AlertPlusTopUp ==
  C6_Scenario =>
    /\ C6_Tables
    /\ Cardinality({e \in sesLog : e.to = "a@x.com" /\ e.subject = CONFIG.ALERT_SUBJECT}) = 1
    /\ Cardinality({e \in sesLog : e.to = "a@x.com" /\ e.subject = TOPUP_SUBJECT})
         = IF qres[1].isNull THEN 0 ELSE 1
    /\ \A e \in sesLog : e.to = "a@x.com"

\* The scenario has ended with two notifications to a@x.com.
C6_Witness ==
  /\ C6_Scenario
  /\ Cardinality({e \in sesLog : e.to = "a@x.com"}) = 2

\* C7: the image key of every alert insert, queued or executed, and of every
\* alert row is the key of an object stored by a put that succeeded; a call
\* whose put failed queues no alert insert.
C7_AlertKeyStored ==
  /\ \A r \in Reqs : \A s \in IssuedOp(r, "INSERT alerts") :
       /\ ext[r].put = "ok"
       /\ s.image = req[r].key
       /\ s.image \in s3
  /\ \A i \in 1..Len(alerts) : alerts[i].image \in s3
  /\ \A r \in Reqs : ext[r].put = "failed" => IssuedOp(r, "INSERT alerts") = {}

\* One call's put failed and another call's alert row is in the table.
C7_Witness ==
  /\ \E r \in Reqs : ext[r].put = "failed"
  /\ Len(alerts) = 1
  /\ alerts[1].image \in s3

C9_PutFailureIsError ==
  \A r \in Reqs :
    ext[r].put = "failed" =>
      /\ pc[r] = "done"
      /\ resp[r].status = 500
      /\ ~resp[r].ok
      /\ resp[r].error = "S3Error"
      /\ Issued(r) = {}
      /\ \A e \in sesLog : e.req # r

\* One call's put failed while the other call wrote its rows and its email.
C9_Witness ==
  \E r, q \in Reqs :
    /\ ext[r].put = "failed"
    /\ resp[q].ok
    /\ Cardinality(Issued(q)) = 4
    /\ \E e \in sesLog : e.req = q

\* C10: a call with a failed SES send (alert email or top-up notice) never
\* answers an error: once it has answered, the answer is {ok:true, faces,
\* key}; its alert insert and its two usage inserts stay queued or executed,
\* and every executed insert has its row in its table.
C10_EmailFailureNotPropagated ==
  /\ \A e \in sesLog :
       ~e.ok =>
         /\ resp[e.req].status \in {0, 200}
         /\ pc[e.req] = "done" =>
              resp[e.req] = [status |-> 200, ok |-> TRUE, faces |-> req[e.req].faces,
                             key |-> req[e.req].key, error |-> ""]
         /\ Cardinality(IssuedOp(e.req, "INSERT alerts")) = 1
         /\ Cardinality(IssuedOp(e.req, "INSERT usage_log")) = 2
  /\ RowsInPlace

\* The alert email and the top-up notice of a call both failed, the call has
\* answered and its rows are in the tables.
C10_Witness ==
  \E r \in Reqs :
    /\ \E e \in EmailsOf(r, CONFIG.ALERT_SUBJECT) : ~e.ok
    /\ \E e \in EmailsOf(r, TOPUP_SUBJECT) : ~e.ok
    /\ pc[r] = "done"
    /\ dbPending = {}
    /\ Len(alerts) = 1

\* C11 as stated: the ceiling check of a call whose plan field names no known
\* plan sends the top-up notice exactly when the sum it read for the recipient
\* is greater than 0, the ceiling of plan Free.
C11_UnknownPlanHasZeroCeiling ==
  \A r \in Reqs :
    (qres[r].ran /\ req[r].plan \notin DOMAIN PLAN_LIMITS) =>
      (qres[r].notice <=> qres[r].total > 0)

\* C12 as stated: the sum the ceiling check reads and the total the
\* usage-summary answers are what the recipient's entries of the calendar
\* month of the query cost, counted from the first instant of day 1.
C12_SumCountsWholeMonth ==
  /\ \A r \in Reqs : qres[r].ran => qres[r].total = qres[r].monthTotal
  /\ \A a \in AdminReqs :
       (adm[a].kind = "usage-summary" /\ adm[a].status = 200) =>
         adm[a].total_cost_usd = toFixed3(adm[a].monthTotal)

\* C13: a usage-summary for a recipient that has no usage entry in the
\* calendar month of the request (every entry costs more than 0, so: whose
\* entries of the month cost 0) answers status 200 with total cost 0.000 and
\* an empty details list, whatever rows other recipients have.
C13_NoEntriesIsZero ==
  \A a \in AdminReqs :
    (adm[a].kind = "usage-summary" /\ adm[a].state = "done" /\ adm[a].email # ""
       /\ adm[a].monthTotal = 0) =>
      /\ adm[a].status = 200
      /\ adm[a].error = ""
      /\ adm[a].total_cost_usd = toFixed3(0)
      /\ adm[a].details = {}

\* A summary for a@x.com was answered when the table held rows of another
\* recipient and none of a@x.com in that month.
C13_Witness ==
  \E a \in AdminReqs :
    /\ adm[a].kind = "usage-summary"
    /\ adm[a].status = 200
    /\ adm[a].email = "a@x.com"
    /\ adm[a].monthTotal = 0
    /\ adm[a].otherRows = 2
    /\ adm[a].details = {}

\* C14 as stated, in the case it names: when usage-reset has answered
\* {ok:true}, the usage-summary arrived after that answer, and every
\* /trigger-alert call received so far had sent its response before the reset
\* arrived, the summary answers total cost 0.000.
C14_SummaryAfterResetIsZero ==
  \A a, b \in AdminReqs :
    ( /\ adm[a].kind = "usage-reset"
      /\ adm[a].ok
      /\ adm[b].kind = "usage-summary"
      /\ adm[b].status = 200
      /\ a \in adm[b].responded
      /\ {r \in Reqs : pc[r] # "idle"} \subseteq adm[a].responded )
    => adm[b].total_cost_usd = toFixed3(0)

\* The statements executed by a step.
Ran == dbDone' \ dbDone

\* Every row of the ledger is a row of the initial ledger or the row an
\* executed INSERT wrote, field by field.
RowsAsInserted ==
  \A row \in BagToSet(usage_log) :
    \/ row \in BagToSet(History(1, "a@x.com", "Standard"))
    \/ \E s \in DoneOp("INSERT usage_log") :
         row = UsageRow(s.user, s.plan, s.channel, s.cost, s.timestamp)

\* C15: the ledger is append-only except for the bulk reset.  A step that
\* executes an INSERT INTO usage_log adds exactly the row of that statement
\* and keeps every other row; a step that executes the DELETE of usage-reset
\* leaves the ledger empty, whatever the recipients of its rows; every other
\* step (the handlers, the alert insert, the ceiling query, the summary,
\* export, replay and incident queries) leaves the ledger unchanged; and
\* the rows present are rows as inserted.
C15_LedgerAppendOnlyExceptReset ==
  [][ /\ (\A s \in Ran : s.op \notin {"INSERT usage_log", "DELETE usage_log"})
           => usage_log' = usage_log
      /\ \A s \in Ran :
           s.op = "INSERT usage_log" =>
             usage_log' = usage_log (+)
               SetToBag({UsageRow(s.user, s.plan, s.channel, s.cost, s.timestamp)})
      /\ \A s \in Ran : s.op = "DELETE usage_log" => usage_log' = EmptyBag
      /\ RowsAsInserted' ]_vars

\* A usage-reset has answered {ok:true} and the ledger is empty after the
\* call of another recipient than a@x.com had written its two usage rows:
\* the DELETE removed the rows of both recipients.
C15_Witness ==
  /\ \E a \in AdminReqs : adm[a].kind = "usage-reset" /\ adm[a].ok
  /\ usage_log = EmptyBag
  /\ Cardinality({s \in DoneOp("INSERT usage_log") : s.user = CONFIG.SES_TO_EMAIL}) = 2
  /\ \E a \in AdminReqs : adm[a].kind = "usage-export" /\ adm[a].status = 200

\* C16: no step modifies or deletes an alert record.  A step that executes an
\* INSERT INTO alerts, which only /trigger-alert queues, appends the row of
\* that statement and keeps the rows present; every other step (usage-reset,
\* usage-summary, usage-export, replay, incident-pdf and their queries
\* included) leaves the alerts table unchanged.
C16_AlertsOnlyGrow ==
  [][ /\ (\A s \in Ran : s.op # "INSERT alerts") => alerts' = alerts
      /\ \A s \in Ran :
           s.op = "INSERT alerts" =>
             /\ s.req \in Reqs
             /\ alerts' = Append(alerts, [id |-> Len(alerts) + 1, type |-> s.type,
                                          timestamp |-> s.timestamp, image |-> s.image]) ]_vars

\* A replay answered the alert row of the call, a usage-reset that arrived
\* after that answer has answered {ok:true}, and the row is still the table.
C16_Witness ==
  \E a, b \in AdminReqs :
    /\ adm[a].kind = "replay"
    /\ adm[a].status = 200
    /\ Len(alerts) = 1
    /\ adm[a].rows = alerts
    /\ adm[b].kind = "usage-reset"
    /\ adm[b].ok
    /\ a \in adm[b].responded

\* C17: the ceiling check never blocks or undoes the call.  Every call whose
\* put succeeded and whose classification returned has queued its alert
\* insert and its two usage inserts and, once it has answered, has answered
\* {ok:true, faces, key} and has attempted the alert email exactly when it is
\* classified unknown_face, whatever its ceiling query found, whether or not a
\* top-up notice was sent and failed, and whatever the ledger held of its
\* recipient when it arrived; and every executed insert has its row.
C17_CeilingCheckNeverBlocks ==
  /\ \A r \in Reqs :
       (ext[r].put = "ok" /\ ext[r].rekog # "none") =>
         /\ Cardinality(IssuedOp(r, "INSERT alerts")) = 1
         /\ Cardinality(IssuedOp(r, "INSERT usage_log")) = 2
         /\ Cardinality(IssuedOp(r, "SELECT SUM")) = 1
         /\ pc[r] \in {"ses", "done"}
         /\ pc[r] = "done" =>
              /\ resp[r] = OkResponse(req[r].faces, req[r].key)
              /\ Cardinality(EmailsOf(r, CONFIG.ALERT_SUBJECT))
                   = IF Classified(r, "unknown_face") THEN 1 ELSE 0
  /\ RowsInPlace
  /\ BagCardinality(usage_log) = Cardinality(DoneOp("INSERT usage_log"))

\* The first call was found over its ceiling and its top-up notice failed;
\* the second call, of the same recipient, was found over the ceiling by the
\* entries of the first call alone; both have answered {ok:true} and all
\* their rows are in the tables.
C17_Witness ==
  /\ req[1].userEmail = req[2].userEmail
  /\ qres[1].notice
  /\ \E e \in EmailsOf(1, TOPUP_SUBJECT) : ~e.ok
  /\ qres[2].notice
  /\ qres[2].own = 0
  /\ qres[2].total = PRICING.email + PRICING.app
  /\ resp[1].ok
  /\ resp[2].ok
  /\ dbPending = {}
  /\ Len(alerts) = 2
  /\ BagCardinality(usage_log) = 4

\* C18 as stated: a call that carried no image has answered with a
\* client-error status (4xx) and has stored no object, queued no statement
\* and sent no email.
C18_NoImageIsClientError ==
  \A r \in Reqs :
    (pc[r] = "done" /\ ~req[r].file.present) =>
      /\ resp[r].status \in 400..499
      /\ ext[r].put = "none"
      /\ Issued(r) = {}
      /\ \A e \in sesLog : e.req # r

\* The instant call r read when it queued its statements.
QueuedAt(r) == (CHOOSE s \in IssuedOp(r, "INSERT alerts") : TRUE).timestamp

\* The two ledger rows of call r: its recipient and plan, one per channel.
CallRows(r) ==
  SetToBag({UsageRow(req[r].userEmail, req[r].plan, "email", PRICING.email, QueuedAt(r))})
    (+) SetToBag({UsageRow(req[r].userEmail, req[r].plan, "app", PRICING.app, QueuedAt(r))})

RECURSIVE AllCallRows(_)
AllCallRows(rs) ==
  IF rs = {} THEN EmptyBag
  ELSE LET r == CHOOSE x \in rs : TRUE
       IN CallRows(r) (+) AllCallRows(rs \ {r})

\* C19: once the concurrent calls have all answered {ok:true} and every
\* statement has been executed, in whatever order the handlers and the
\* statements interleaved, the alerts table holds exactly one row per call,
\* with the call's classification and key, and the ledger is exactly the two
\* rows of each call, each with the recipient and plan of its call.
C19_NoInsertLostOrMisattributed ==
  ((\A r \in Reqs : resp[r].ok) /\ dbPending = {}) =>
    /\ Len(alerts) = Cardinality(Reqs)
    /\ \E f \in [1..Len(alerts) -> Reqs] :
         /\ \A i, j \in 1..Len(alerts) : f[i] = f[j] => i = j
         /\ \A i \in 1..Len(alerts) :
              /\ alerts[i].id = i
              /\ alerts[i].type = AlertType(req[f[i]].faces)
              /\ alerts[i].image = req[f[i]].key
              /\ alerts[i].timestamp = QueuedAt(f[i])
    /\ usage_log = AllCallRows(Reqs)
    /\ BagCardinality(usage_log) = 2 * Cardinality(Reqs)

\* Two calls of different recipients, plans and classifications have
\* answered {ok:true} and all their statements have been executed; the
\* second call's alert row was inserted first, and its ceiling query was
\* executed before any usage row was written while the first call's query
\* found two.
C19_Witness ==
  /\ \A r \in Reqs : resp[r].ok
  /\ dbPending = {}
  /\ req[1].userEmail # req[2].userEmail
  /\ req[1].plan = "Free"
  /\ req[2].plan = "Standard"
  /\ Len(alerts) = 2
  /\ alerts[1].type = AlertType(req[2].faces)
  /\ alerts[2].type = AlertType(req[1].faces)
  /\ alerts[1].type # alerts[2].type
  /\ qres[2].ran
  /\ qres[2].isNull
  /\ qres[1].total = PRICING.email + PRICING.app

\* The statement of call r with operation op (and channel ch) has been executed.
Executed(r, op, ch) == \E s \in dbDone : s.req = r /\ s.op = op /\ s.channel = ch

\* C20 as stated: the steps of a call take effect in the order Face Match
\* completes, Object Store put, alert insert, email usage entry, app usage
\* entry, ceiling query, alert email (unknown_face only), response: whenever
\* a step has taken effect, so has every step before it, and no image is
\* stored before it has been submitted for classification.
C20_StepsInOrder ==
  \A r \in Reqs :
    /\ ext[r].put = "ok" => ext[r].rekog # "none"
    /\ Executed(r, "INSERT alerts", "") => ext[r].put = "ok"
    /\ Executed(r, "INSERT usage_log", "email") => Executed(r, "INSERT alerts", "")
    /\ Executed(r, "INSERT usage_log", "app") => Executed(r, "INSERT usage_log", "email")
    /\ Executed(r, "SELECT SUM", "") => Executed(r, "INSERT usage_log", "app")
    /\ EmailsOf(r, CONFIG.ALERT_SUBJECT) # {} => Executed(r, "SELECT SUM", "")
    /\ resp[r].ok =>
         /\ Executed(r, "SELECT SUM", "")
         /\ Classified(r, "unknown_face") => EmailsOf(r, CONFIG.ALERT_SUBJECT) # {}

\* C21: a call receives exactly one response.  A response once sent is never
\* followed by another; it is {ok:true, faces, key} with status 200 or
\* {error: message} with status 500; and every call that was received gets
\* its response in the end, its external calls returning or failing.
C21_ExactlyOneResponse ==
  /\ [][\A r \in Reqs : resp[r].status # 0 => resp'[r] = resp[r]]_vars
  /\ [](\A r \in Reqs :
          /\ resp[r].status # 0 <=> pc[r] = "done"
          /\ resp[r].status # 0 =>
               \/ resp[r] = OkResponse(req[r].faces, req[r].key)
               \/ /\ resp[r].error # ""
                  /\ resp[r] = ErrorResponse(resp[r].error))
  /\ (pc[1] # "idle") ~> (resp[1].status \in {200, 500})

\* A call has answered {ok:true} after its alert email failed, and the
\* statements it queued have all been executed since.
C21_Witness ==
  /\ resp[1] = OkResponse(<<>>, req[1].key)
  /\ \E e \in EmailsOf(1, CONFIG.ALERT_SUBJECT) : ~e.ok
  /\ Cardinality(Issued(1)) = 4
  /\ dbPending = {}

\* C22 as stated: an answered usage-summary has in details one row per
\* channel in which the recipient has an entry of the calendar month, with
\* the number of those entries and the sum of their costs, and its total cost
\* is the sum of the details totals; rows of other recipients add nothing.
C22_DetailsPerChannel ==
  \A a \in AdminReqs :
    (adm[a].kind = "usage-summary" /\ adm[a].status = 200) =>
      /\ adm[a].details = adm[a].monthDetails
      /\ adm[a].total_cost_usd = toFixed3(TotalCost(adm[a].details))
      /\ TotalCost(adm[a].details) = adm[a].monthTotal

\* C23: a usage-summary without an email is answered at once with status
\* 400 and {error: "Missing email"}; it queues no query, so no statement of
\* it is ever pending or executed, and it carries no total and no details.
C23_MissingEmailIs400 ==
  \A a \in AdminReqs :
    (adm[a].kind = "usage-summary" /\ adm[a].email = "") =>
      /\ adm[a].state = "done"
      /\ adm[a].status = 400
      /\ adm[a].error = "Missing email"
      /\ ~adm[a].ok
      /\ adm[a].details = {}
      /\ \A s \in dbPending \cup dbDone : s.req # a

\* A usage-summary without an email has been answered 400; the ledger holds
\* the two rows of a call that answered {ok:true}.
C23_Witness ==
  /\ adm[3].kind = "usage-summary"
  /\ adm[3].email = ""
  /\ adm[3].status = 400
  /\ BagCardinality(usage_log) = 2
  /\ resp[1].ok

\* C24: a call has answered {ok:true} only after its put stored the image
\* and its classification returned, and, when it is classified unknown_face,
\* only after its alert email was attempted (sent or failed); the ceiling
\* query and the top-up notice are not waited for, so they may still be
\* pending when the response is sent (the witness).
C24_ResponseAfterAwaitedCalls ==
  \A r \in Reqs :
    resp[r].ok =>
      /\ ext[r].put = "ok"
      /\ req[r].key \in s3
      /\ ext[r].rekog \in {"answered", "failed"}
      /\ Cardinality(Issued(r)) = 4
      /\ Classified(r, "unknown_face") =>
           Cardinality(EmailsOf(r, CONFIG.ALERT_SUBJECT)) = 1

\* An unknown_face call has answered {ok:true} after its alert email failed,
\* while its ceiling query is still queued and no top-up notice has been sent.
C24_Witness ==
  /\ resp[1].ok
  /\ Classified(1, "unknown_face")
  /\ \E e \in EmailsOf(1, CONFIG.ALERT_SUBJECT) : ~e.ok
  /\ IssuedOp(1, "SELECT SUM") \subseteq dbPending
  /\ ~qres[1].ran
  /\ EmailsOf(1, TOPUP_SUBJECT) = {}

\* C25: the top-up decision of a call rests on the entries of its own
\* recipient only.  The ceiling query reads what the recipient's own entries
\* of the month cost, whatever the entries of other recipients; the notice is
\* sent exactly when that cost is over the ceiling of the call's plan; and
\* every top-up notice of a call is addressed to the call's recipient.
C25_TopUpFromOwnEntriesOnly ==
  \A r \in Reqs :
    /\ qres[r].ran =>
         /\ qres[r].total = qres[r].monthTotal
         /\ qres[r].notice <=>
              (req[r].plan \in DOMAIN PLAN_LIMITS
                 /\ qres[r].monthTotal > PLAN_LIMITS[req[r].plan])
    /\ EmailsOf(r, TOPUP_SUBJECT) # {} <=> qres[r].notice
    /\ \A e \in EmailsOf(r, TOPUP_SUBJECT) : e.to = req[r].userEmail

\* The ceiling query of the Free call found no entry and sent no notice
\* while the table held both entries of the other call, of another
\* recipient; the Standard call's query read the entries of its own
\* recipient only.
C25_Witness ==
  /\ req[1].userEmail # req[2].userEmail
  /\ qres[1].ran
  /\ qres[1].isNull
  /\ ~qres[1].notice
  /\ qres[1].othersTotal = PRICING.email + PRICING.app
  /\ qres[2].ran
  /\ qres[2].total = PRICING.email + PRICING.app
  /\ EmailsOf(1, TOPUP_SUBJECT) = {}

\* C26: two calls have the same storage key exactly when they read the same
\* clock instant for the key and carry the same original name; the bucket
\* holds one object per distinct key string; and two alert rows share an
\* image key only when they are the rows of two calls of one instant and one
\* name.
C26_SameKeyIffSameInstantAndName ==
  /\ \A r, q \in Reqs :
       (pc[r] # "idle" /\ pc[q] # "idle") =>
         /\ req[r].key.name = req[r].file.originalname
         /\ KeyString(req[r].key) = KeyString(req[q].key)
              <=> (req[r].key.ts = req[q].key.ts
                     /\ req[r].file.originalname = req[q].file.originalname)
  /\ Cardinality({KeyString(k) : k \in s3}) = Cardinality(s3)
  /\ \A i, j \in 1..Len(alerts) :
       (i # j /\ KeyString(alerts[i].image) = KeyString(alerts[j].image)) =>
         /\ req[1].key.ts = req[2].key.ts
         /\ req[1].file.originalname = req[2].file.originalname
         /\ alerts[i].image = req[1].key

\* Two calls of one instant and one name have answered {ok:true}: their two
\* alert rows share the image key and the bucket holds one object.
C26_Witness ==
  /\ resp[1].ok
  /\ resp[2].ok
  /\ Len(alerts) = 2
  /\ KeyString(alerts[1].image) = KeyString(alerts[2].image)
  /\ Cardinality(s3) = 1

\* C27: the create-collection request is issued at most once (no two calls
\* are past the list that found the collection missing), and a call's create
\* request is outstanding only while the collection is missing, so that the
\* request can succeed and the call go on to its face search.
C27_CreateOnceAndEveryCallSearches ==
  /\ Cardinality({r \in Reqs : pc[r] = "create"}) <= 1
  /\ \A r \in Reqs :
       pc[r] = "create" => CONFIG.REKOG_COLLECTION_ID \notin collections

\* C28: the top-up notice is sent again by every call whose recipient is
\* already over the ceiling.  When the ceiling check of a call with a known
\* plan runs and the recipient's entries of the calendar month cost more than
\* the ceiling even without the two entries of the call itself, the check
\* sends a top-up notice to the recipient.  (The cost is read from the ledger
\* as it is when the check runs: after a reset or in a new month the earlier
\* entries no longer count.)
C28_NoticeOnEveryCallOverCeiling ==
  \A r \in Reqs :
    (/\ qres[r].ran
     /\ req[r].plan \in DOMAIN PLAN_LIMITS
     /\ qres[r].monthTotal - (PRICING.email + PRICING.app) > PLAN_LIMITS[req[r].plan]) =>
      /\ qres[r].notice
      /\ \E e \in EmailsOf(r, TOPUP_SUBJECT) : e.to = req[r].userEmail

\* C29: in the v3.4 handler a call that received a file leaves through the
\* removal of the file on every exit path: when the call has ended, after
\* the {ok:true} response and after a failed put alike, the removal has been
\* attempted and the file is gone unless the removal itself failed.  Until
\* the call ends the file is in place, so uploadToS3 has read it, and
\* detectFaces has read it whenever it reached its search.  The response is
\* the one the put decided, whatever the outcome of the removal; a call
\* without a file answers the TypeError.
C29_TempFileRemovedOnEveryExit ==
  \A r \in Reqs :
    /\ (pc[r] = "done" /\ req[r].file.present) =>
         /\ ext[r].unlink \in {"ok", "failed"}
         /\ ext[r].tmp = "removed" <=> ext[r].unlink = "ok"
         /\ ext[r].tmp = "stored" <=> ext[r].unlink = "failed"
         /\ "uploadToS3" \in ext[r].reads
         /\ ext[r].rekog = "answered" => "detectFaces" \in ext[r].reads
         /\ ext[r].put \in {"ok", "failed"}
         /\ resp[r] = IF ext[r].put = "ok"
                      THEN OkResponse(req[r].faces, req[r].key)
                      ELSE ErrorResponse("S3Error")
    /\ pc[r] \notin {"idle", "done"} =>
         /\ ext[r].tmp = "stored"
         /\ ext[r].unlink = "none"
    /\ (pc[r] = "done" /\ ~req[r].file.present) =>
         /\ ext[r].tmp = "none"
         /\ resp[r] = ErrorResponse("TypeError")

\* The put of a call failed after detectFaces had searched with the image:
\* the call answered 500 and its file is removed.
C29_Witness ==
  /\ pc[1] = "done"
  /\ ext[1].put = "failed"
  /\ ext[1].rekog = "answered"
  /\ ext[1].reads = {"detectFaces", "uploadToS3"}
  /\ resp[1].status = 500
  /\ ext[1].tmp = "removed"

\* The tokens created by createVerificationToken no later than the last
\* GET /verify that are the token it presented.
C30_Creations ==
  {i \in auth.issued : i.token = auth.last.token /\ i.at <= auth.last.at}

\* C30 as stated: GET /verify serves the success page exactly when the token
\* was created by createVerificationToken less than the lifetime (24 hours)
\* before the request, counted on the clock.
C30_AcceptsIffCreatedWithinLifetime ==
  auth.last.page # "none" =>
    (auth.last.page = "verified-success.html"
       <=> \E i \in C30_Creations : auth.last.at - i.at < ExpiresIn * TicksPerSecond)

\* C30, amended: GET /verify serves the success page exactly when the token
\* was created by createVerificationToken and fewer whole seconds than the
\* lifetime lie between the second of its creation and the second of the
\* request; every other request (no token, no JWT, a foreign signature, an
\* expired token) is served the expired page; and a verification changes
\* nothing but the record of the last response, so a token is accepted again
\* on every use until it expires.
C30_AcceptsIffCreatedWithinLifetimeInSeconds ==
  /\ [](auth.last.page # "none" =>
          /\ auth.last.page \in {"verified-success.html", "verify-expired.html"}
          /\ auth.last.page = "verified-success.html"
               <=> \E i \in C30_Creations :
                     Seconds(auth.last.at) - Seconds(i.at) < ExpiresIn)
  /\ [][auth'.last # auth.last => (auth'.issued = auth.issued /\ auth'.resend = auth.resend)]_vars

\* A token the server created was presented twice in a row and served the
\* success page both times, the second time in the last second before its
\* exp.
C30_Witness ==
  /\ auth.last.page = "verified-success.html"
  /\ auth.last.again
  /\ auth.last.token.key = JWT_SECRET
  /\ Seconds(auth.last.at) = auth.last.token.exp - 1
  /\ C30_Creations # {}

====
